---- MODULE Spec2Model ----
(***************************************************************************)
(* A model of generate_project_data.py: the record loop of                 *)
(* generate_project_data, the module-level seeding of the two random       *)
(* sources, and the __main__ block that generates 500 records and writes   *)
(* project_data.csv.                                                       *)
(*                                                                         *)
(* Real numbers are kept as scaled integers (fixed point).  The unit of    *)
(* every quantity is stated where it is defined:                           *)
(*   budget_thousands            hundredths  (round(.., 2))                *)
(*   the five 1-10 risk factors  tenths      (round(.., 1))                *)
(*   budget_variance_percent     tenths      (round(.., 1))                *)
(*   quality_score               tenths      (round(.., 1))                *)
(*   risk_score                  thousandths (exact: the weights are       *)
(*                               multiples of 0.05 and the factors of 0.1) *)
(*   success_probability, u      ten-thousandths                           *)
(***************************************************************************)
EXTENDS Integers, Sequences, FiniteSets, TLC

VARIABLES
    pc,           \* position of the process / of the call
    n_projects,   \* the argument of generate_project_data
    i,            \* the loop variable of line 30
    data,         \* the list the loop appends to (line 24)
    loc,          \* the bound locals of the loop body (name -> value)
    calls,        \* the random-number calls the current iteration has made
    df,           \* the table generate_project_data returned (line 105/110)
    np_rng,       \* state of numpy.random's global generator
    py_rng,       \* state of the random module's global generator
    file,         \* project_data.csv on disk (survives the process)
    file_writes,  \* writes of project_data.csv by the current process
    runs          \* how many times the script has been started

vars == <<pc, n_projects, i, data, loc, calls, df, np_rng, py_rng, file,
          file_writes, runs>>

-----------------------------------------------------------------------------
(* Bounds of the model. *)

\* Largest record count a caller passes in Spec (arguments are -1..MaxProjects).
MaxProjects == 2

\* How many times the script is started in SpecMain.
MaxRuns == 2

\* SpecLong: the iterations of the long call that have already run.
ResumeAt == 9999

-----------------------------------------------------------------------------
(* Program constants. *)

\* A faulty seeding: the seed taken from something that differs from run to
\* run (here the run number) instead of the constant.
NpSeedFromRuns == 42 + runs

\* np.random.seed(42), random.seed(42)
NpSeed == 42

PySeed == 42

\* generate_project_data(n_projects=500) in __main__
MainProjects == 500

\* max(50, min(budget, 5000)), in thousands
BudgetMin == 50

BudgetMax == 5000

\* max(3, min(team_size, 50))
TeamMin == 3

TeamMax == 50

\* max(1, min(planned_duration, 24))
DurationMin == 1

DurationMax == 24

project_types == <<"Software Development", "Infrastructure", "Business Process",
                   "Product Launch", "System Integration">>

industries == <<"Technology", "Finance", "Healthcare", "Retail", "Manufacturing">>

\* The keys of the dict appended at lines 85-103, in order.
Columns == <<"project_id", "project_type", "industry", "budget_thousands",
             "team_size", "planned_duration_months", "actual_duration_months",
             "scope_clarity_score", "stakeholder_engagement",
             "resource_availability", "technical_complexity",
             "team_experience_level", "change_requests",
             "external_dependencies", "budget_variance_percent",
             "quality_score", "success">>

-----------------------------------------------------------------------------
(* Arithmetic of the loop body. *)

Max(a, b) == IF a >= b THEN a ELSE b

Min(a, b) == IF a <= b THEN a ELSE b

\* A faulty int(): rounding to the nearest integer instead of truncating.
IntTruncMut(x, d) == LET q == x \div d
                         r == x % d
                     IN  IF 2 * r < d THEN q
                         ELSE IF 2 * r > d THEN q + 1
                         ELSE IF q % 2 = 0 THEN q ELSE q + 1

\* int(x) of a float x given in units of 1/d: truncation toward zero.
IntTrunc(x, d) == IF x >= 0 THEN x \div d ELSE -((-x) \div d)

\* round(x, k) of a float x given in units of 1/(d * 10^k): the result is in
\* units of 1/10^k.  Python rounds to nearest, ties to even.
RoundHalfEven(x, d) == LET q == x \div d
                           r == x % d
                       IN  IF 2 * r < d THEN q
                           ELSE IF 2 * r > d THEN q + 1
                           ELSE IF q % 2 = 0 THEN q ELSE q + 1

\* A faulty clamp: the upper bound is not applied.
ClampMut(lo, v, hi) == Max(lo, v)

\* max(lo, min(v, hi))
Clamp(lo, v, hi) == Max(lo, Min(v, hi))

\* Line 36-37.  x: the lognormal draw in units of 1/10000, so x * 10 is in
\* thousandths; the budget is in hundredths.
Budget(x) == Clamp(BudgetMin * 100, RoundHalfEven(x, 10), BudgetMax * 100)

\* Line 40-41.  x: the lognormal draw in tenths.
TeamSize(x) == Clamp(TeamMin, IntTrunc(x, 10), TeamMax)

\* Line 44-45.  x: the gamma draw in tenths.
PlannedDuration(x) == Clamp(DurationMin, IntTrunc(x, 10), DurationMax)

\* Lines 48-50, 52.  b: the beta draw in units of 1/10000, so b * 10 is in
\* thousandths; the score is in tenths.
BetaScore(b) == RoundHalfEven(b, 100)

\* Line 51.  x: the uniform(1, 10) draw in hundredths; the score is in tenths.
Complexity(x) == RoundHalfEven(x, 10)

\* Lines 59-67, in thousandths.  The factors are in tenths, the counts whole:
\* (10 - f) * 0.2 = (100 - F) * 20 / 1000, (c / 10) * 0.1 = c * 10 / 1000.
RiskScore(sc, se, ra, tc, te, cr, dep) ==
    (100 - sc) * 20 + (100 - se) * 15 + (100 - ra) * 20 + tc * 15
    + (100 - te) * 15 + cr * 10 + dep * 5

\* np.exp(z) for z = z2 / 2000 >= 0, in ten-thousandths: the Taylor series
\* sum z^k / k!, each term truncated, 16 terms.
RECURSIVE ExpSeries(_, _, _, _)
ExpSeries(z2, k, term, acc) ==
    IF k > 16 \/ term = 0 THEN acc
    ELSE LET next == (term * z2) \div (2000 * k)
         IN  ExpSeries(z2, k + 1, next, acc + next)

\* np.exp((risk_score - 5) / 2), in ten-thousandths; risk in thousandths.
ExpHalf(risk) ==
    LET z2 == risk - 5000
    IN  IF z2 >= 0 THEN ExpSeries(z2, 1, 10000, 10000)
        ELSE 100000000 \div ExpSeries(-z2, 1, 10000, 10000)

\* A faulty sigmoid: the exponent's sign is flipped, exp((5 - risk) / 2).
SuccessProbabilityMut(risk) == 100000000 \div (10000 + ExpHalf(10000 - risk))

\* Line 70: 1 / (1 + exp((risk_score - 5) / 2)), in ten-thousandths.
SuccessProbability(risk) == 100000000 \div (10000 + ExpHalf(risk))

\* Line 71: 1 if random.random() < success_probability else 0.
SuccessOf(u, p) == IF u < p THEN 1 ELSE 0

\* Lines 75, 79 and 83.  x: the normal draw in tenths.
ActualDuration(planned, x) == Max(1, planned + IntTrunc(x, 10))

\* Lines 76, 80.  x: the normal draw in hundredths; the variance is in tenths.
BudgetVariance(x) == RoundHalfEven(x, 10)

\* A faulty quality score: the draw scaled by 1000 instead of 100.
QualityScoreMut(b) == RoundHalfEven(b, 1)

\* Lines 77, 81.  b: the beta draw in units of 1/10000, so b * 100 is in
\* hundredths; the score is in tenths.
QualityScore(b) == RoundHalfEven(b, 10)

\* The decimal digits of k >= 0, most significant first.
RECURSIVE Digits(_)
Digits(k) == IF k < 10 THEN <<k>> ELSE Append(Digits(k \div 10), k % 10)

\* Left-pad with zeros to at least w digits (the format spec 0w d).
RECURSIVE ZeroPad(_, _)
ZeroPad(ds, w) == IF Len(ds) >= w THEN ds ELSE ZeroPad(<<0>> \o ds, w)

\* A faulty id: the 0-based loop index instead of i + 1.
ProjectIdMut(idx) == [prefix |-> "PRJ_", digits |-> ZeroPad(Digits(idx), 4)]

\* Line 86: f'PRJ_{i+1:04d}'.  The string is kept as its prefix and digits.
ProjectId(idx) == [prefix |-> "PRJ_", digits |-> ZeroPad(Digits(idx + 1), 4)]

-----------------------------------------------------------------------------
(* The random sources.                                                     *)
(*                                                                         *)
(* A generator is [seeded, s].  A seeded generator is deterministic: every *)
(* call advances s by NextRng and returns the sample its state selects, so *)
(* the stream is a function of the seed alone.  (NextRng is a 16-bit       *)
(* linear congruential step standing in for MT19937, whose only property   *)
(* used here is that determinism.)  A generator that has not been seeded   *)
(* since the process started holds operating-system entropy: its calls     *)
(* may return any sample.                                                  *)

Unseeded == [seeded |-> FALSE, s |-> 0]

\* np.random.seed(v) / random.seed(v): lines 11-12.
SeededWith(v) == [seeded |-> TRUE, s |-> v]

NextRng(s) == (s * 25173 + 13849) % 65536

\* The sample a generator state selects from a distribution's samples.
Pick(samples, s) == samples[((s * Len(samples)) \div 65536) + 1]

\* A call of a random source: src is "py" (random) or "np" (numpy.random);
\* args are the distribution's parameters in tenths.
RngCall(src, dist, args) == [src |-> src, dist |-> dist, args |-> args]

\* Lines 32-56, in program order.
AttrCalls ==
    << RngCall("py", "choice", <<50>>),         \* project_type
       RngCall("py", "choice", <<50>>),         \* industry
       RngCall("np", "lognormal", <<50, 10>>),  \* budget
       RngCall("np", "lognormal", <<20, 8>>),   \* team_size
       RngCall("np", "gamma", <<30, 20>>),      \* planned_duration
       RngCall("np", "beta", <<50, 20>>),       \* scope_clarity
       RngCall("np", "beta", <<40, 20>>),       \* stakeholder_engagement
       RngCall("np", "beta", <<50, 30>>),       \* resource_availability
       RngCall("np", "uniform", <<10, 100>>),   \* technical_complexity
       RngCall("np", "beta", <<50, 20>>),       \* team_experience
       RngCall("np", "poisson", <<30>>),        \* change_requests
       RngCall("np", "poisson", <<20>>) >>      \* dependencies

\* Line 71.
BernoulliCalls == << RngCall("py", "random", <<>>) >>

\* Lines 75-77.
SuccessCalls == << RngCall("np", "normal", <<0, 20>>),
                   RngCall("np", "normal", <<0, 150>>),
                   RngCall("np", "beta", <<80, 20>>) >>

\* A faulty failure branch: the quality draw uses the success shape Beta(8,2).
FailureCallsMut == << RngCall("np", "normal", <<50, 30>>),
                      RngCall("np", "normal", <<250, 150>>),
                      RngCall("np", "beta", <<80, 20>>) >>

\* Lines 79-81.
FailureCalls == << RngCall("np", "normal", <<50, 30>>),
                   RngCall("np", "normal", <<250, 150>>),
                   RngCall("np", "beta", <<30, 50>>) >>

\* Five samples of each distribution, increasing, in the unit the consuming
\* line is modelled in: below the clamp, low, middle, high, above the clamp
\* (or the two ends of the support).
Samples(c) ==
    CASE c.dist = "choice"  -> <<1, 2, 3, 4, 5>>
      [] c.dist = "random"  -> <<0, 2500, 5000, 7500, 9999>>
      [] c.dist = "lognormal" /\ c.args = <<50, 10>>
                            -> <<49994, 500000, 1484132, 4999996, 9000000>>
      [] c.dist = "lognormal" /\ c.args = <<20, 8>>
                            -> <<9, 30, 73, 509, 1200>>
      [] c.dist = "gamma"   -> <<4, 19, 60, 249, 310>>
      [] c.dist = "beta" /\ c.args = <<50, 20>>
                            -> <<0, 4550, 7145, 8850, 10000>>
      [] c.dist = "beta" /\ c.args = <<40, 20>>
                            -> <<0, 3950, 6667, 8450, 10000>>
      [] c.dist = "beta" /\ c.args = <<50, 30>>
                            -> <<0, 3350, 6250, 8049, 10000>>
      [] c.dist = "uniform" -> <<100, 325, 555, 775, 1000>>
      [] c.dist = "poisson" /\ c.args = <<30>>
                            -> <<0, 1, 3, 5, 9>>
      [] c.dist = "poisson" /\ c.args = <<20>>
                            -> <<0, 1, 2, 4, 7>>
      [] c.dist = "normal" /\ c.args = <<0, 20>>
                            -> <<-80, -25, -7, 7, 27>>
      [] c.dist = "normal" /\ c.args = <<50, 30>>
                            -> <<-25, 7, 55, 58, 120>>
      [] c.dist = "normal" /\ c.args = <<0, 150>>
                            -> <<-3010, -1525, 0, 1234, 2875>>
      [] c.dist = "normal" /\ c.args = <<250, 150>>
                            -> <<-305, 1005, 2500, 4075, 6123>>
      [] c.dist = "beta" /\ c.args = <<80, 20>>
                            -> <<0, 6575, 8123, 9285, 10000>>
      [] c.dist = "beta" /\ c.args = <<30, 50>>
                            -> <<0, 1505, 3755, 6215, 10000>>

\* The states of both generators after the first k calls of cs, and the
\* values those calls return, when both generators are seeded.
RECURSIVE SeededRun(_, _, _, _, _)
SeededRun(cs, k, ns, ps, vals) ==
    IF k > Len(cs) THEN [vals |-> vals, np |-> ns, py |-> ps]
    ELSE IF cs[k].src = "np"
         THEN SeededRun(cs, k + 1, NextRng(ns), ps,
                        Append(vals, Pick(Samples(cs[k]), NextRng(ns))))
         ELSE SeededRun(cs, k + 1, ns, NextRng(ps),
                        Append(vals, Pick(Samples(cs[k]), NextRng(ps))))

\* Sample positions an unseeded generator is given in the model.
EntropyIdx == {1, 3, 5}

\* The outcomes of making the calls cs in order: each is the values returned
\* and the generators' states afterwards.  Seeded generators give one
\* outcome.  Unseeded ones may return anything; the model takes the calls of
\* group g1 (positions of cs) at one sample position and the others at
\* another, over all pairs of positions.
Outcomes(cs, g1) ==
    IF np_rng.seeded /\ py_rng.seeded
    THEN LET r == SeededRun(cs, 1, np_rng.s, py_rng.s, <<>>)
         IN  {[vals |-> r.vals,
               np |-> SeededWith(r.np), py |-> SeededWith(r.py)]}
    ELSE {[vals |-> [k \in 1..Len(cs) |->
                       Samples(cs[k])[IF k \in g1 THEN a ELSE b]],
           np |-> np_rng, py |-> py_rng] : a \in EntropyIdx, b \in EntropyIdx}

\* What the iteration's call log gains: each call with the value it returned.
Logged(cs, vals) == [k \in 1..Len(cs) |-> [call |-> cs[k], value |-> vals[k]]]

-----------------------------------------------------------------------------
(* generate_project_data: lines 14-105. *)

\* A faulty loop bound: one iteration too many.
InRangeMut(k, n) == k <= n

\* for i in range(n_projects): whether range yields i (line 30).
InRange(k, n) == k < n

\* Positions in AttrCalls of the draws the risk score reads (lines 48-56).
RiskDraws == 6..12

\* A faulty record: the risk score is stored as an 18th field.
RecordMut(idx, l) ==
    [project_id |-> ProjectId(idx),
     project_type |-> l.project_type,
     industry |-> l.industry,
     budget_thousands |-> l.budget,
     team_size |-> l.team_size,
     planned_duration_months |-> l.planned_duration,
     actual_duration_months |-> l.actual_duration,
     scope_clarity_score |-> l.scope_clarity,
     stakeholder_engagement |-> l.stakeholder_engagement,
     resource_availability |-> l.resource_availability,
     technical_complexity |-> l.technical_complexity,
     team_experience_level |-> l.team_experience,
     change_requests |-> l.change_requests,
     external_dependencies |-> l.dependencies,
     budget_variance_percent |-> l.budget_variance,
     quality_score |-> l.quality_score,
     success |-> l.success,
     risk_score |-> l.risk_score]

\* The dict of lines 85-103.
Record(idx, l) ==
    [project_id |-> ProjectId(idx),
     project_type |-> l.project_type,
     industry |-> l.industry,
     budget_thousands |-> l.budget,
     team_size |-> l.team_size,
     planned_duration_months |-> l.planned_duration,
     actual_duration_months |-> l.actual_duration,
     scope_clarity_score |-> l.scope_clarity,
     stakeholder_engagement |-> l.stakeholder_engagement,
     resource_availability |-> l.resource_availability,
     technical_complexity |-> l.technical_complexity,
     team_experience_level |-> l.team_experience,
     change_requests |-> l.change_requests,
     external_dependencies |-> l.dependencies,
     budget_variance_percent |-> l.budget_variance,
     quality_score |-> l.quality_score,
     success |-> l.success]

\* Lines 24-28: the call starts with an empty list.
Call ==
    /\ pc = "call"
    /\ data' = <<>>
    /\ i' = 0
    /\ pc' = "loop"
    /\ UNCHANGED <<n_projects, loc, calls, df, np_rng, py_rng, file,
                   file_writes, runs>>

\* Lines 32-70: the locals bound from the twelve attribute draws v, with the
\* risk score and the success probability computed from them.
AttrLocals(v) ==
    LET sc == BetaScore(v[6])
        se == BetaScore(v[7])
        ra == BetaScore(v[8])
        tc == Complexity(v[9])
        te == BetaScore(v[10])
        risk == RiskScore(sc, se, ra, tc, te, v[11], v[12])
    IN  [project_type |-> project_types[v[1]],
         industry |-> industries[v[2]],
         budget |-> Budget(v[3]),
         team_size |-> TeamSize(v[4]),
         planned_duration |-> PlannedDuration(v[5]),
         scope_clarity |-> sc,
         stakeholder_engagement |-> se,
         resource_availability |-> ra,
         technical_complexity |-> tc,
         team_experience |-> te,
         change_requests |-> v[11],
         dependencies |-> v[12],
         risk_score |-> risk,
         success_probability |-> SuccessProbability(risk)]

\* Lines 30-70: range yields i; the attributes are drawn, the risk score and
\* the success probability computed.
SampleAttributes ==
    /\ pc = "loop"
    /\ InRange(i, n_projects)
    /\ \E o \in Outcomes(AttrCalls, RiskDraws) :
         /\ loc' = AttrLocals(o.vals) @@ loc
         /\ calls' = Logged(AttrCalls, o.vals)
         /\ np_rng' = o.np
         /\ py_rng' = o.py
    /\ pc' = "bernoulli"
    /\ UNCHANGED <<n_projects, i, data, df, file, file_writes, runs>>

\* Line 71: one uniform draw decides success.
DrawSuccess ==
    /\ pc = "bernoulli"
    /\ \E o \in Outcomes(BernoulliCalls, {}) :
         /\ loc' = [success |-> SuccessOf(o.vals[1], loc.success_probability)]
                   @@ loc
         /\ calls' = calls \o Logged(BernoulliCalls, o.vals)
         /\ np_rng' = o.np
         /\ py_rng' = o.py
    /\ pc' = "outcome"
    /\ UNCHANGED <<n_projects, i, data, df, file, file_writes, runs>>

\* Lines 75-77 or 79-81, then 83: the locals bound from the three outcome
\* draws v.
OutcomeLocals(planned, v) ==
    [actual_duration |-> ActualDuration(planned, v[1]),
     budget_variance |-> BudgetVariance(v[2]),
     quality_score |-> QualityScore(v[3])]

\* The outcome fields drawn with the calls cs (one branch of lines 74-81),
\* then line 83.
DrawOutcome(cs) ==
    /\ \E o \in Outcomes(cs, {}) :
         /\ loc' = OutcomeLocals(loc.planned_duration, o.vals) @@ loc
         /\ calls' = calls \o Logged(cs, o.vals)
         /\ np_rng' = o.np
         /\ py_rng' = o.py
    /\ pc' = "append"
    /\ UNCHANGED <<n_projects, i, data, df, file, file_writes, runs>>

\* Lines 74-77 and 83: if success.
OutcomeSuccess ==
    /\ pc = "outcome"
    /\ loc.success # 0
    /\ DrawOutcome(SuccessCalls)

\* Lines 78-81 and 83: else.
OutcomeFailure ==
    /\ pc = "outcome"
    /\ loc.success = 0
    /\ DrawOutcome(FailureCalls)

\* Lines 85-103: the record is appended and the iteration ends.
AppendRecord ==
    /\ pc = "append"
    /\ data' = Append(data, Record(i, loc))
    /\ i' = i + 1
    /\ calls' = <<>>
    /\ pc' = "loop"
    /\ UNCHANGED <<n_projects, loc, df, np_rng, py_rng, file, file_writes,
                   runs>>

\* Line 105: range is exhausted; the list becomes the returned table.
Return ==
    /\ pc = "loop"
    /\ ~InRange(i, n_projects)
    /\ df' = data
    /\ pc' = "returned"
    /\ UNCHANGED <<n_projects, i, data, loc, calls, np_rng, py_rng, file,
                   file_writes, runs>>

Generate ==
    \/ Call
    \/ SampleAttributes
    \/ DrawSuccess
    \/ OutcomeSuccess
    \/ OutcomeFailure
    \/ AppendRecord
    \/ Return

-----------------------------------------------------------------------------
(* Spec: generate_project_data called by an importing program, with any    *)
(* argument in -1..MaxProjects and the random sources in whatever state    *)
(* the caller left them (any draw may return any sample).                  *)

NoFile == [exists |-> FALSE, header |-> <<>>, rows |-> <<>>]

Init ==
    /\ pc = "call"
    /\ n_projects \in -1..MaxProjects
    /\ i = 0
    /\ data = <<>>
    /\ loc = <<>>
    /\ calls = <<>>
    /\ df = <<>>
    /\ np_rng = Unseeded
    /\ py_rng = Unseeded
    /\ file = NoFile
    /\ file_writes = 0
    /\ runs = 0

Next == Generate

Spec == Init /\ [][Next]_vars

-----------------------------------------------------------------------------
(* SpecLong: Spec, and besides a long call, generate_project_data(n) with  *)
(* n = ResumeAt + 1, taken up where ResumeAt iterations have run (each of  *)
(* whose draws returned its middle sample) and the last one is about to.   *)

\* The locals after an iteration all of whose draws returned sample k.
LocalsOfSample(k) ==
    LET a == AttrLocals([j \in 1..Len(AttrCalls) |-> Samples(AttrCalls[j])[k]])
        s == SuccessOf(Samples(BernoulliCalls[1])[k], a.success_probability)
        cs == IF s # 0 THEN SuccessCalls ELSE FailureCalls
    IN  OutcomeLocals(a.planned_duration,
                      [j \in 1..Len(cs) |-> Samples(cs[j])[k]])
        @@ [success |-> s] @@ a

InitLong ==
    \/ Init
    \/ /\ pc = "loop"
       /\ n_projects = ResumeAt + 1
       /\ i = ResumeAt
       /\ loc = LocalsOfSample(3)
       /\ data = [k \in 1..ResumeAt |-> Record(k - 1, loc)]
       /\ calls = <<>>
       /\ df = <<>>
       /\ np_rng = Unseeded
       /\ py_rng = Unseeded
       /\ file = NoFile
       /\ file_writes = 0
       /\ runs = 0

SpecLong == InitLong /\ [][Next]_vars

-----------------------------------------------------------------------------
(* SpecMain: the script run as a program (python generate_project_data.py), *)
(* up to MaxRuns times.  Each run is a fresh process: it loads the module  *)
(* (lines 11-12 seed both random sources), runs the __main__ block and     *)
(* exits.  Only project_data.csv outlives a process.                       *)

\* Lines 11-12: module-level seeding.
LoadModule ==
    /\ pc = "start"
    /\ np_rng' = SeededWith(NpSeed)
    /\ py_rng' = SeededWith(PySeed)
    /\ pc' = "main"
    /\ UNCHANGED <<n_projects, i, data, loc, calls, df, file, file_writes, runs>>

\* Lines 107-110: the call generate_project_data(n_projects=500).
MainCall ==
    /\ pc = "main"
    /\ n_projects' = MainProjects
    /\ pc' = "call"
    /\ UNCHANGED <<i, data, loc, calls, df, np_rng, py_rng, file, file_writes,
                   runs>>

\* df.to_csv(path, index=False): the header and one row per record.
CsvOf(t) == [exists |-> TRUE, header |-> Columns, rows |-> t]

\* A faulty write: the file is written inside the loop, before the record in
\* hand is appended.
ToCsvEarly ==
    /\ pc = "append"
    /\ file' = CsvOf(data)
    /\ file_writes' = file_writes + 1
    /\ pc' = "append"
    /\ UNCHANGED <<n_projects, i, data, loc, calls, df, np_rng, py_rng, runs>>

\* Line 113: df.to_csv('project_data.csv', index=False).
ToCsv ==
    /\ pc = "returned"
    /\ file' = CsvOf(df)
    /\ file_writes' = file_writes + 1
    /\ pc' = "written"
    /\ UNCHANGED <<n_projects, i, data, loc, calls, df, np_rng, py_rng, runs>>

\* Lines 115-120: the summary is printed and the process ends.
Exit ==
    /\ pc = "written"
    /\ pc' = "exited"
    /\ UNCHANGED <<n_projects, i, data, loc, calls, df, np_rng, py_rng, file,
                   file_writes, runs>>

\* The state of a process that has just started: nothing is bound and the
\* random sources hold operating-system entropy.
Fresh(p, n, k, d, l, c, t, g1, g2, w) ==
    /\ p = "start"
    /\ n = 0
    /\ k = 0
    /\ d = <<>>
    /\ l = <<>>
    /\ c = <<>>
    /\ t = <<>>
    /\ g1 = Unseeded
    /\ g2 = Unseeded
    /\ w = 0

\* The script is started again; the file of the earlier run is still there.
Restart ==
    /\ pc = "exited"
    /\ runs < MaxRuns
    /\ Fresh(pc', n_projects', i', data', loc', calls', df', np_rng', py_rng',
             file_writes')
    /\ runs' = runs + 1
    /\ UNCHANGED file

InitMain ==
    /\ Fresh(pc, n_projects, i, data, loc, calls, df, np_rng, py_rng,
             file_writes)
    /\ file = NoFile
    /\ runs = 1

NextMain ==
    \/ LoadModule
    \/ MainCall
    \/ Generate
    \/ ToCsv
    \/ Exit
    \/ Restart

SpecMain == InitMain /\ [][NextMain]_vars

-----------------------------------------------------------------------------
(* The claims. *)

\* The value of the first n digits of ds read as a decimal number.
RECURSIVE ValueOfFirst(_, _)
ValueOfFirst(ds, n) ==
    IF n = 0 THEN 0 ELSE 10 * ValueOfFirst(ds, n - 1) + ds[n]

\* The value of a digit sequence read as a decimal number.
DigitsValue(ds) == ValueOfFirst(ds, Len(ds))

\* Position in the iteration's call log of the uniform draw of line 71.
UniformAt == Len(AttrCalls) + 1

\* C1: for every n >= 1, generate_project_data(n) returns exactly n records,
\* and every record (returned, or already appended) has exactly the 17 named
\* fields, no more and no fewer.
C1_CountAndFields ==
    LET named == {"project_id", "project_type", "industry", "budget_thousands",
                  "team_size", "planned_duration_months",
                  "actual_duration_months", "scope_clarity_score",
                  "stakeholder_engagement", "resource_availability",
                  "technical_complexity", "team_experience_level",
                  "change_requests", "external_dependencies",
                  "budget_variance_percent", "quality_score", "success"}
    IN  /\ Cardinality(named) = 17
        /\ \A k \in 1..Len(data) : DOMAIN data[k] = named
        /\ (pc = "returned" /\ n_projects >= 1) =>
              /\ Len(df) = n_projects
              /\ \A k \in 1..Len(df) : DOMAIN df[k] = named

C1_Witness == pc = "returned" /\ n_projects = 2 /\ Len(df) = 2

\* C2 as stated: the k-th record's project_id is PRJ_ followed by k written
\* as exactly 4 zero-padded decimal digits, for every N >= 1.
C2_FourDigitIds ==
    \A k \in 1..Len(data) :
        /\ data[k].project_id.prefix = "PRJ_"
        /\ Len(data[k].project_id.digits) = 4
        /\ DigitsValue(data[k].project_id.digits) = k

\* C2 as amended: the project_ids of one call are pairwise distinct and, read
\* as numbers, strictly increasing in generation order; the k-th is PRJ_
\* followed by the decimal digits of k, zero-padded on the left to at least 4
\* digits: exactly 4 digits up to k = 9999, and the digits of k itself, with
\* no padding, from k = 10000 on.  One record gets PRJ_0001.  (Looked at
\* after every append and at the return: the list changes nowhere else.)
C2_PaddedIds ==
    pc \in {"loop", "returned"} =>
        /\ \A k \in 1..Len(data) :
              LET id == data[k].project_id
                  v == DigitsValue(id.digits)
              IN  /\ id.prefix = "PRJ_"
                  /\ id.digits \in Seq(0..9)
                  /\ v = k
                  /\ (k <= 9999 => Len(id.digits) = 4)
                  /\ (k >= 10000 => Len(id.digits) > 4 /\ id.digits[1] # 0)
                  /\ (k > 1 => DigitsValue(data[k - 1].project_id.digits) < v)
        /\ Cardinality({data[k].project_id : k \in 1..Len(data)}) = Len(data)
        /\ (pc = "returned" /\ n_projects = 1) =>
              /\ Len(df) = 1
              /\ df[1].project_id = [prefix |-> "PRJ_", digits |-> <<0, 0, 0, 1>>]
        /\ pc = "returned" => df = data

C2_Witness ==
    /\ pc = "returned"
    /\ Len(df) = 10000
    /\ df[9999].project_id.digits = <<9, 9, 9, 9>>
    /\ df[10000].project_id.digits = <<1, 0, 0, 0, 0>>

\* C3: in every appended record 50 <= budget_thousands <= 5000 (hundredths
\* here), 3 <= team_size <= 50, 1 <= planned_duration_months <= 24 and
\* actual_duration_months >= 1, whatever the draws returned.
C3_ClampedFields ==
    \A k \in 1..Len(data) :
        /\ 50 * 100 <= data[k].budget_thousands
        /\ data[k].budget_thousands <= 5000 * 100
        /\ 3 <= data[k].team_size /\ data[k].team_size <= 50
        /\ 1 <= data[k].planned_duration_months
        /\ data[k].planned_duration_months <= 24
        /\ data[k].actual_duration_months >= 1

\* Two records: every clamp has acted at its lower end in the first and at
\* its upper end in the second.
C3_Witness ==
    /\ Len(data) = 2
    /\ data[1].budget_thousands = 50 * 100
    /\ data[1].team_size = 3
    /\ data[1].planned_duration_months = 1
    /\ data[1].actual_duration_months = 1
    /\ data[2].budget_thousands = 5000 * 100
    /\ data[2].team_size = 50
    /\ data[2].planned_duration_months = 24

\* C4: in every appended record success is 0 or 1 and quality_score lies in
\* [0, 100] (tenths here), in the success and in the failure branch.
C4_SuccessAndQuality ==
    \A k \in 1..Len(data) :
        /\ data[k].success \in {0, 1}
        /\ 0 <= data[k].quality_score
        /\ data[k].quality_score <= 100 * 10

C4_Witness ==
    /\ Len(data) = 2
    /\ data[1].success = 1 /\ data[1].quality_score = 100 * 10
    /\ data[2].success = 0 /\ data[2].quality_score = 0

\* C5: two independent runs with the same n_projects produce identical
\* tables: each run starts both random sources from the same seeded state
\* (seed 42), and a later run writes the very file an earlier one wrote.
C5_Deterministic ==
    /\ [](pc = "main" => /\ np_rng = [seeded |-> TRUE, s |-> 42]
                         /\ py_rng = [seeded |-> TRUE, s |-> 42])
    /\ [][file.exists => file' = file]_vars

C5_Witness ==
    /\ runs = 2
    /\ pc = "written"
    /\ file.exists
    /\ Len(file.rows) = 500

\* C6 as stated: a call with n_projects <= 0 is rejected; it does not return
\* a table.
C6_Rejected == n_projects <= 0 => pc # "returned"

\* C6 as amended: a call with n_projects <= 0 is not rejected: the loop body
\* never runs, no error is raised, and the call returns an empty table.
C6_EmptyTable ==
    n_projects <= 0 =>
        /\ pc \in {"call", "loop", "returned"}
        /\ data = <<>>
        /\ calls = <<>>
        /\ (pc = "returned" => df = <<>>)

C6_Witness == pc = "returned" /\ n_projects = -1 /\ df = <<>>

\* C7: within a record the outcome-dependent draws are made only after that
\* record's uniform draw has decided success, and all three use the success
\* parameters Normal(0,2), Normal(0,15), Beta(8,2) exactly when success = 1
\* and the failure parameters Normal(5,3), Normal(25,15), Beta(3,5) exactly
\* when success = 0; the fields of the record are computed from these draws.
C7_OutcomeAfterSuccess ==
    LET good == << [src |-> "np", dist |-> "normal", args |-> <<0, 20>>],
                   [src |-> "np", dist |-> "normal", args |-> <<0, 150>>],
                   [src |-> "np", dist |-> "beta", args |-> <<80, 20>>] >>
        bad  == << [src |-> "np", dist |-> "normal", args |-> <<50, 30>>],
                   [src |-> "np", dist |-> "normal", args |-> <<250, 150>>],
                   [src |-> "np", dist |-> "beta", args |-> <<30, 50>>] >>
        outcome == {good[k] : k \in 1..3} \cup {bad[k] : k \in 1..3}
    IN  /\ \A k \in 1..Len(calls) :
              calls[k].call \in outcome =>
                  /\ k > 13
                  /\ calls[13].call = [src |-> "py", dist |-> "random",
                                       args |-> <<>>]
                  /\ pc = "append"
        /\ pc = "append" =>
              /\ Len(calls) = 16
              /\ [k \in 1..3 |-> calls[13 + k].call]
                     = IF loc.success = 1 THEN good ELSE bad
              /\ loc.success \in {0, 1}
              /\ (loc.success = 1) = (calls[13].value < loc.success_probability)
              /\ loc.budget_variance = RoundHalfEven(calls[15].value, 10)
              /\ loc.quality_score = RoundHalfEven(calls[16].value, 10)

C7_Witness ==
    /\ pc = "append"
    /\ loc.success = 0
    /\ Len(data) = 1
    /\ data[1].success = 1

\* C8: run as a program, the script writes the output file exactly once, and
\* only after all 500 records have been generated and collected; nothing is
\* written while records are being generated, and no record changes once it
\* has been appended.
C8_SingleWriteAtEnd ==
    /\ [](/\ file_writes <= 1
          /\ file_writes = 1 =>
                /\ pc \in {"written", "exited"}
                /\ Len(data) = 500
                /\ file = [exists |-> TRUE, header |-> Columns, rows |-> data]
          /\ pc \in {"written", "exited"} => file_writes = 1)
    /\ [][pc' # "start" =>
             \A k \in 1..Len(data) : Len(data') >= k /\ data'[k] = data[k]]_vars

C8_Witness ==
    /\ pc = "exited"
    /\ file_writes = 1
    /\ Len(file.rows) = 500

\* C9 as stated: actual_duration_months = max(1, planned + round(x)) with x
\* the duration-noise draw (tenths here) rounded to the nearest integer.
C9_RoundedNoise ==
    pc = "append" =>
        loc.actual_duration
            = Max(1, loc.planned_duration + RoundHalfEven(calls[14].value, 10))

\* C9 as amended: actual_duration_months = max(1, planned + t), where t is
\* the noise draw x truncated toward zero (int(x)): the integer of the same
\* sign as x with |t| <= |x| < |t| + 1.  A noise of 0.7 or -0.7 adds nothing.
C9_TruncatedNoise ==
    pc = "append" =>
        LET x == calls[14].value
        IN  \E t \in -20..20 :
               /\ t * x >= 0
               /\ IF x >= 0 THEN 10 * t <= x /\ x < 10 * t + 10
                            ELSE 10 * t >= x /\ x > 10 * t - 10
               /\ loc.actual_duration = Max(1, loc.planned_duration + t)

C9_Witness ==
    /\ pc = "append"
    /\ calls[14].value = -7
    /\ loc.planned_duration > 1
    /\ loc.actual_duration = loc.planned_duration

\* C10: success is 1 exactly when the record's one uniform draw u is below
\* p = 1 / (1 + exp((risk - 5) / 2)); p does not increase with the risk
\* score, so for the same u a success at risk r is a success at every
\* r' <= r; and raising scope_clarity, stakeholder_engagement,
\* resource_availability or team_experience, or lowering
\* technical_complexity, change_requests or external_dependencies, never
\* raises the risk score.  (p is in ten-thousandths: 0.5 at risk 5, 0.9187 at
\* risk 0.15 and 0.1419 at risk 8.6, to three places; its monotonicity is
\* looked at on a grid of risk scores 0, 0.25, ..., 10 when a call starts.)
C10_SuccessMonotone ==
    LET scores == {0, 50, 100}
        counts == {0, 9}
    IN  /\ pc = "call" =>
              /\ SuccessProbability(5000) = 5000
              /\ SuccessProbability(150) \in 9182..9192
              /\ SuccessProbability(8600) \in 1414..1424
              /\ \A k \in 0..39 : SuccessProbability(250 * k)
                                      >= SuccessProbability(250 * (k + 1))
        /\ pc = "outcome" =>
              LET u == calls[UniformAt].value
                  l == loc
              IN  /\ Len(calls) = UniformAt
                  /\ \A k \in 1..Len(calls) :
                        (calls[k].call.dist = "random") = (k = UniformAt)
                  /\ l.success_probability = SuccessProbability(l.risk_score)
                  /\ (l.success = 1) = (u < l.success_probability)
                  /\ l.success \in {0, 1}
                  /\ \A r \in {0, 2500, 5000, 7500} :
                        (l.success = 1 /\ r <= l.risk_score)
                            => SuccessOf(u, SuccessProbability(r)) = 1
                  /\ l.risk_score
                        = RiskScore(l.scope_clarity, l.stakeholder_engagement,
                                    l.resource_availability,
                                    l.technical_complexity, l.team_experience,
                                    l.change_requests, l.dependencies)
                  /\ \A v \in scores :
                        /\ v >= l.scope_clarity =>
                              RiskScore(v, l.stakeholder_engagement,
                                        l.resource_availability,
                                        l.technical_complexity,
                                        l.team_experience, l.change_requests,
                                        l.dependencies) <= l.risk_score
                        /\ v >= l.stakeholder_engagement =>
                              RiskScore(l.scope_clarity, v,
                                        l.resource_availability,
                                        l.technical_complexity,
                                        l.team_experience, l.change_requests,
                                        l.dependencies) <= l.risk_score
                        /\ v >= l.resource_availability =>
                              RiskScore(l.scope_clarity,
                                        l.stakeholder_engagement, v,
                                        l.technical_complexity,
                                        l.team_experience, l.change_requests,
                                        l.dependencies) <= l.risk_score
                        /\ v <= l.technical_complexity =>
                              RiskScore(l.scope_clarity,
                                        l.stakeholder_engagement,
                                        l.resource_availability, v,
                                        l.team_experience, l.change_requests,
                                        l.dependencies) <= l.risk_score
                        /\ v >= l.team_experience =>
                              RiskScore(l.scope_clarity,
                                        l.stakeholder_engagement,
                                        l.resource_availability,
                                        l.technical_complexity, v,
                                        l.change_requests, l.dependencies)
                                  <= l.risk_score
                  /\ \A c \in counts :
                        /\ c <= l.change_requests =>
                              RiskScore(l.scope_clarity,
                                        l.stakeholder_engagement,
                                        l.resource_availability,
                                        l.technical_complexity,
                                        l.team_experience, c, l.dependencies)
                                  <= l.risk_score
                        /\ c <= l.dependencies =>
                              RiskScore(l.scope_clarity,
                                        l.stakeholder_engagement,
                                        l.resource_availability,
                                        l.technical_complexity,
                                        l.team_experience, l.change_requests, c)
                                  <= l.risk_score

C10_Witness ==
    /\ pc = "outcome"
    /\ calls[UniformAt].value = 5000
    /\ loc.success = 1
    /\ loc.risk_score > 2500
    /\ Len(data) = 1
    /\ data[1].success = 0

====
